---------------------------- MODULE Spec2Model ----------------------------
(***************************************************************************)
(* A model of the Inven board crawler and its sentiment pipeline           *)
(* (src/pipelines):                                                        *)
(*                                                                         *)
(*   - HttpClient.get_text            rate limit, retry loop, backoff      *)
(*   - HttpConfig, HttpClient         construction from the settings       *)
(*   - InvenCrawler.fetch_posts       batch fetch with per-item isolation  *)
(*   - InvenCrawler.fetch_post_refs   pagination over the list pages       *)
(*   - InvenCrawler._build_list_url   the url of a list page               *)
(*   - InvenCrawler._parse_list_html  the list extractor                   *)
(*   - InvenCrawler._split_category   category and title of an anchor      *)
(*   - InvenCrawler._parse_post_html  the detail extractor                 *)
(*   - build_text                     the text given to the model          *)
(*   - SentimentModel.predict         batched inference                    *)
(*   - InvenKafkaProducer.send_many   delivery to the sink                 *)
(*                                                                         *)
(* Each component is a state machine of its own, with a specification of   *)
(* its own (SpecHttp, SpecCrawl, ...); Spec starts any one of them.  The   *)
(* program is single-threaded, so a component that is not running is       *)
(* "off" and none of its actions is enabled.                               *)
(*                                                                         *)
(* In get_text durations are counted in quarters of a second: the two      *)
(* jitters of the client, uniform(0, 0.25) and uniform(0, 0.5), are then   *)
(* 0..1 and 0..2.                                                          *)
(***************************************************************************)
EXTENDS Integers, Sequences, FiniteSets

VARIABLES
    \* ---- HttpClient.get_text ----
    cfg,        \* the HttpConfig of the client
    hpc,        \* position in get_text: off, start, loop, returned, raised
    attempt,    \* the loop variable of get_text
    last_exc,   \* the local last_exc of get_text
    calls,      \* the calls get_text has made so far: time.sleep and session.get
    hres,       \* what get_text returned or raised
    \* ---- InvenCrawler.fetch_posts ----
    refs,       \* the argument of fetch_posts
    cpc,        \* position in fetch_posts: off, loop, returned, raised
    ci,         \* index in refs of the next reference of the for loop
    posts,      \* the local list posts
    events,     \* per finished iteration: the reference, whether
                \* http.get_text was called for it, what it returned, and
                \* the error the iteration ended with (the logged warning)
    cexc,       \* the exception fetch_posts let through, if any
    \* ---- InvenCrawler._parse_list_html ----
    lpc,        \* off, start, parsed
    lhtml,      \* the anchors of the page, in document order
    lout,       \* the list _parse_list_html returned
    \* ---- InvenCrawler.fetch_post_refs ----
    rpc,        \* off, loop, returned, raised
    max_pages,  \* the arguments of fetch_post_refs
    max_posts,
    page,       \* the loop variable
    collected,  \* the dict collected, as the list of its values in insertion order
    pageLog,    \* per list page fetched: its number, its url, whether
                \* get_text returned, and how many references it parsed to
    firstSeen,  \* of every post_id among the parsed references of the
                \* pages fetched, its first occurrence, in order of occurrence
    rres,       \* what fetch_post_refs returned
    \* ---- InvenCrawler._parse_post_html ----
    dpc,        \* off, start, parsed
    dlines,     \* the local lines: the text lines of the page
    dtitle,     \* the local title: the h2 text, else ref.title
    created_at, \* the three extracted fields of the BoardPost
    author,
    content,
    start_idx,  \* the local start_idx of _extract_content
    \* ---- InvenCrawler._split_category ----
    spc,        \* off, start, done
    raw_title,  \* the argument title_raw: the text of an anchor
    split_out,  \* the pair (category, title) returned
    \* ---- SentimentModel.predict ----
    mcfg,       \* the SentimentModelConfig of the model
    texts,      \* the argument of predict
    ppc,        \* off, start, loop, returned, raised
    bi,         \* the loop variable i of _batched
    results,    \* the local list results
    batches,    \* per call of _predict_batch: its texts and the probs the
                \* model gave for them
    \* ---- InvenKafkaProducer.send_many ----
    payloads,   \* the argument items of send_many
    kpc,        \* off, loop, returned, raised
    ki,         \* index in items of the next item of the for loop
    count,      \* the local count
    sends,      \* per call of self._producer.send: the index of the item,
                \* the key, and how the send and future.get ended
    flushed,    \* whether self._producer.flush returned
    kexc,       \* the exception send_many raised, if any
    \* ---- HttpConfig(...) and HttpClient(config) ----
    npc,        \* off, start, config, client
    nargs,      \* the values the settings give for the fields
    ncfg,       \* the HttpConfig object, once constructed
    \* ---- build_text ----
    bpc,        \* off, start, done
    bpost,      \* the argument post: its title and content
    text_used,  \* the argument text_used
    btext,      \* the text returned
    \* ---- InvenCrawler._build_list_url ----
    upc,            \* off, start, done
    board_base_url, \* self.board_base_url, as urlparse splits it
    upage,          \* the argument page
    list_url        \* the url returned, as urlparse splits it

httpVars == <<cfg, hpc, attempt, last_exc, calls, hres>>

crawlVars == <<refs, cpc, ci, posts, events, cexc>>

listVars == <<lpc, lhtml, lout>>

refsVars == <<rpc, max_pages, max_posts, page, collected, pageLog, firstSeen, rres>>

detailVars == <<dpc, dlines, dtitle, created_at, author, content, start_idx>>

splitVars == <<spc, raw_title, split_out>>

predictVars == <<mcfg, texts, ppc, bi, results, batches>>

sendVars == <<payloads, kpc, ki, count, sends, flushed, kexc>>

configVars == <<npc, nargs, ncfg>>

textVars == <<bpc, bpost, text_used, btext>>

listUrlVars == <<upc, board_base_url, upage, list_url>>

vars == <<httpVars, crawlVars, listVars, refsVars, detailVars, splitVars, predictVars, sendVars, configVars, textVars, listUrlVars>>

\* What the actions of one component leave alone: the other components
HttpFrame ==
    UNCHANGED <<crawlVars, listVars, refsVars, detailVars, splitVars,
                predictVars, sendVars, configVars, textVars, listUrlVars>>
CrawlFrame ==
    UNCHANGED <<httpVars, listVars, refsVars, detailVars, splitVars,
                predictVars, sendVars, configVars, textVars, listUrlVars>>
ListFrame ==
    UNCHANGED <<httpVars, crawlVars, refsVars, detailVars, splitVars,
                predictVars, sendVars, configVars, textVars, listUrlVars>>
RefsFrame ==
    UNCHANGED <<httpVars, crawlVars, listVars, detailVars, splitVars,
                predictVars, sendVars, configVars, textVars, listUrlVars>>
DetailFrame ==
    UNCHANGED <<httpVars, crawlVars, listVars, refsVars, splitVars,
                predictVars, sendVars, configVars, textVars, listUrlVars>>
SplitFrame ==
    UNCHANGED <<httpVars, crawlVars, listVars, refsVars, detailVars,
                predictVars, sendVars, configVars, textVars, listUrlVars>>
PredictFrame ==
    UNCHANGED <<httpVars, crawlVars, listVars, refsVars, detailVars,
                splitVars, sendVars, configVars, textVars, listUrlVars>>
SendFrame ==
    UNCHANGED <<httpVars, crawlVars, listVars, refsVars, detailVars,
                splitVars, predictVars, configVars, textVars, listUrlVars>>
ConfigFrame ==
    UNCHANGED <<httpVars, crawlVars, listVars, refsVars, detailVars,
                splitVars, predictVars, sendVars, textVars, listUrlVars>>
TextFrame ==
    UNCHANGED <<httpVars, crawlVars, listVars, refsVars, detailVars,
                splitVars, predictVars, sendVars, configVars, listUrlVars>>
ListUrlFrame ==
    UNCHANGED <<httpVars, crawlVars, listVars, refsVars, detailVars,
                splitVars, predictVars, sendVars, configVars, textVars>>

\* ------------------------------------------------------------------------
\* Bounds of the model
\* ------------------------------------------------------------------------

\* max_retries is drawn from -1..MaxRetries (HttpConfig accepts any integer)
MaxRetries == 2

\* fetch_posts is given at most MaxRefs references
MaxRefs == 3

\* a list page holds at most MaxAnchors anchors
MaxAnchors == 3

\* fetch_post_refs is called with max_pages in 0..MaxPages
MaxPages == 3

\* and with max_posts in 0..MaxPosts
MaxPosts == 3

\* a detail page has at most MaxLines text lines
MaxLines == 4
MaxTitleLen == 5

\* predict is given at most MaxTexts texts, under a batch_size in
\* 0..MaxBatch
MaxTexts == 3
MaxBatch == 3

\* send_many is given at most MaxItems items
MaxItems == 3

\* the title and the content of a post have at most MaxFieldLen characters
MaxFieldLen == 2

\* the query of the board base url has at most MaxQuery parameters
MaxQuery == 3

\* delay_sec, backoff_base_sec and backoff_max_sec, in quarters of a second
DelaySecs == {0, 2}
BackoffBases == {0, 1}
BackoffCaps == {1, 3}

\* ------------------------------------------------------------------------
\* HttpClient (src/pipelines/http_client.py)
\* ------------------------------------------------------------------------

\* random.uniform(0.0, 0.25) in _rate_limit, in quarters of a second
RateJitterMax == 1

\* random.uniform(0.0, 0.5) in _compute_backoff, in quarters of a second
BackoffJitterMax == 2

HttpConfig ==
    [delay_sec : DelaySecs,
     max_retries : -1..MaxRetries,
     backoff_base_sec : BackoffBases,
     backoff_max_sec : BackoffCaps]

\* What one session.get(url, timeout=...) can do: raise a RequestException
\* (status 0) or deliver a response with a status code and a body.
Statuses == {200, 301, 403, 429, 500}

Outcomes ==
    {[raised |-> TRUE, status |-> 0, body |-> "none"]}
        \cup {[raised |-> FALSE, status |-> s, body |-> "page"] : s \in Statuses}

\* Response.raise_for_status: an HTTPError for 4xx and 5xx, nothing otherwise
RaiseForStatus(status) == 400 <= status /\ status < 600

\* The try block of get_text ends in the except clause
Fails(out) ==
    \/ out.raised
    \/ out.status \in {403, 429}
    \/ RaiseForStatus(out.status)

NoExc == [type |-> "None", status |-> 0, attempt |-> -1]

\* The exception object the except clause binds to e at the given attempt
ExcOf(out, k) ==
    IF out.raised
    THEN [type |-> "RequestException", status |-> 0, attempt |-> k]
    ELSE [type |-> "HTTPError", status |-> out.status, attempt |-> k]

Min(a, b) == IF a <= b THEN a ELSE b

RECURSIVE Pow2(_)
Pow2(k) == IF k <= 0 THEN 1 ELSE 2 * Pow2(k - 1)

ComputeBackoffNoCap(k, jitter) == cfg.backoff_base_sec * Pow2(k) + jitter

\* _compute_backoff, with the value random.uniform returned
ComputeBackoff(k, jitter) ==
    Min(cfg.backoff_base_sec * Pow2(k), cfg.backoff_max_sec) + jitter

TotalAttemptsOffByOne == cfg.max_retries

\* len(range(self._cfg.max_retries + 1)) when positive
TotalAttempts == cfg.max_retries + 1

SleepCall(site, sec) ==
    [op |-> "sleep", site |-> site, sec |-> sec, attempt |-> -1,
     out |-> [raised |-> FALSE, status |-> 0, body |-> "none"]]

GetCall(k, out) ==
    [op |-> "get", site |-> "get_text", sec |-> 0, attempt |-> k, out |-> out]

NoResult == [kind |-> "none", text |-> "none", exc |-> NoExc]

HttpIdle ==
    /\ hpc = "off"
    /\ cfg = [delay_sec |-> 0, max_retries |-> 0,
              backoff_base_sec |-> 0, backoff_max_sec |-> 0]
    /\ attempt = 0
    /\ last_exc = NoExc
    /\ calls = <<>>
    /\ hres = NoResult

\* A client with any configuration, at the entry of get_text(url)
HttpInit ==
    /\ cfg \in HttpConfig
    /\ hpc = "start"
    /\ attempt = 0
    /\ last_exc = NoExc
    /\ calls = <<>>
    /\ hres = NoResult

\* self._rate_limit(); last_exc = None; the loop starts at attempt 0
RateLimit ==
    /\ hpc = "start"
    /\ \E jitter \in 0..RateJitterMax :
          calls' = Append(calls, SleepCall("rate_limit", cfg.delay_sec + jitter))
    /\ hpc' = "loop"
    /\ attempt' = 0
    /\ last_exc' = NoExc
    /\ UNCHANGED <<cfg, hres>>
    /\ HttpFrame

\* An iteration whose request succeeds: return resp.text
GetSuccess ==
    /\ hpc = "loop"
    /\ attempt < TotalAttempts
    /\ \E out \in Outcomes :
          /\ ~Fails(out)
          /\ calls' = Append(calls, GetCall(attempt, out))
          /\ hres' = [kind |-> "text", text |-> out.body, exc |-> NoExc]
    /\ hpc' = "returned"
    /\ UNCHANGED <<cfg, attempt, last_exc>>
    /\ HttpFrame

\* An iteration that fails with attempts remaining: sleep the backoff, loop
GetFailRetry ==
    /\ hpc = "loop"
    /\ attempt < TotalAttempts
    /\ ~(attempt >= cfg.max_retries)
    /\ \E out \in Outcomes, jitter \in 0..BackoffJitterMax :
          /\ Fails(out)
          /\ last_exc' = ExcOf(out, attempt)
          /\ calls' = calls \o <<GetCall(attempt, out),
                                 SleepCall("backoff", ComputeBackoff(attempt, jitter))>>
    /\ attempt' = attempt + 1
    /\ UNCHANGED <<cfg, hpc, hres>>
    /\ HttpFrame

\* An iteration that fails with no attempt remaining: re-raise e
GetFailFinal ==
    /\ hpc = "loop"
    /\ attempt < TotalAttempts
    /\ attempt >= cfg.max_retries
    /\ \E out \in Outcomes :
          /\ Fails(out)
          /\ last_exc' = ExcOf(out, attempt)
          /\ calls' = Append(calls, GetCall(attempt, out))
          /\ hres' = [kind |-> "raise", text |-> "none", exc |-> ExcOf(out, attempt)]
    /\ hpc' = "raised"
    /\ UNCHANGED <<cfg, attempt>>
    /\ HttpFrame

\* The statements after the loop: assert last_exc is not None; raise last_exc.
\* With last_exc unset the assert raises AssertionError; python -O drops the
\* assert and "raise None" raises TypeError.
PostLoop ==
    /\ hpc = "loop"
    /\ ~(attempt < TotalAttempts)
    /\ \E t \in {"AssertionError", "TypeError"} :
          hres' = [kind |-> "raise", text |-> "none",
                   exc |-> IF last_exc = NoExc
                           THEN [type |-> t, status |-> 0, attempt |-> -1]
                           ELSE last_exc]
    /\ hpc' = "raised"
    /\ UNCHANGED <<cfg, attempt, last_exc, calls>>
    /\ HttpFrame

HttpNext == RateLimit \/ GetSuccess \/ GetFailRetry \/ GetFailFinal \/ PostLoop


\* ------------------------------------------------------------------------
\* Properties of get_text
\* ------------------------------------------------------------------------

GetIndexes == {i \in DOMAIN calls : calls[i].op = "get"}

NumGets == Cardinality(GetIndexes)

FailedGets == {i \in GetIndexes : Fails(calls[i].out)}

LastCall == calls[Len(calls)]

\* C1: with max_retries = R >= 0, get_text never issues more than R+1 GETs;
\* it raises only after exactly R+1 failed GETs, and what it raises is the
\* error of the last one (attempt R); it returns only after a GET that
\* succeeded, which is then the last call and the only success, the k GETs
\* issued being attempts 0..k-1, and it returns that response's body.
C1_RetryCount ==
    cfg.max_retries >= 0 =>
        /\ NumGets <= cfg.max_retries + 1
        /\ \A i \in GetIndexes : calls[i].attempt + 1 = Cardinality({j \in GetIndexes : j <= i})
        /\ hpc \in {"start", "loop"} => FailedGets = GetIndexes
        /\ hpc = "raised" =>
              /\ NumGets = cfg.max_retries + 1
              /\ FailedGets = GetIndexes
              /\ LastCall.op = "get"
              /\ hres.kind = "raise"
              /\ hres.exc = ExcOf(LastCall.out, cfg.max_retries)
              /\ hres.exc = last_exc
        /\ hpc = "returned" =>
              /\ LastCall.op = "get"
              /\ ~Fails(LastCall.out)
              /\ FailedGets = GetIndexes \ {Len(calls)}
              /\ NumGets = LastCall.attempt + 1
              /\ hres.kind = "text"
              /\ hres.text = LastCall.out.body
        /\ (FailedGets = GetIndexes /\ NumGets = cfg.max_retries + 1) => hpc = "raised"

\* get_text raised after three failed GETs whose first and last errors differ
C1_Witness ==
    /\ hpc = "raised"
    /\ cfg.max_retries = 2
    /\ NumGets = 3
    /\ \E i \in GetIndexes : calls[i].attempt = 0 /\ calls[i].out # LastCall.out

\* get_text returned at the second attempt, after one failure
C1_WitnessReturn ==
    /\ hpc = "returned"
    /\ NumGets = 2
    /\ cfg.max_retries = 2

\* C2: every GET of get_text, retries included, is immediately preceded by a
\* rate-limit sleep of at least delay_sec.
C2_RateLimitBeforeEveryGet ==
    \A i \in GetIndexes :
        /\ i > 1
        /\ calls[i - 1].op = "sleep"
        /\ calls[i - 1].site = "rate_limit"
        /\ calls[i - 1].sec >= cfg.delay_sec

\* C2, duration only: the call before every GET is a sleep of at least
\* delay_sec, whichever statement slept.
C2_SleepBeforeEveryGet ==
    \A i \in GetIndexes :
        /\ i > 1
        /\ calls[i - 1].op = "sleep"
        /\ calls[i - 1].sec >= cfg.delay_sec

BackoffIndexes == {i \in DOMAIN calls : calls[i].op = "sleep" /\ calls[i].site = "backoff"}

\* The capped exponential min(base * 2^k, cap) of the claim
CappedExp(k) ==
    IF cfg.backoff_base_sec * (2 ^ k) <= cfg.backoff_max_sec
    THEN cfg.backoff_base_sec * (2 ^ k)
    ELSE cfg.backoff_max_sec

\* C3: every failed attempt k with attempts remaining (k < max_retries) is
\* followed by one backoff sleep within
\* [min(base * 2^k, cap), min(base * 2^k, cap) + 0.5 s], every backoff sleep
\* follows such an attempt, and nothing is slept after the final failed attempt.
C3_BackoffRange ==
    /\ \A i \in BackoffIndexes :
          /\ i > 1
          /\ calls[i - 1].op = "get"
          /\ Fails(calls[i - 1].out)
          /\ calls[i - 1].attempt < cfg.max_retries
          /\ calls[i].sec >= CappedExp(calls[i - 1].attempt)
          /\ calls[i].sec <= CappedExp(calls[i - 1].attempt) + BackoffJitterMax
    /\ \A i \in FailedGets :
          IF calls[i].attempt < cfg.max_retries
          THEN i + 1 \in BackoffIndexes
          ELSE i = Len(calls)

\* A retry slept a backoff that the cap cut down, with the largest jitter,
\* and the final attempt failed
C3_Witness ==
    /\ hpc = "raised"
    /\ \E i \in BackoffIndexes :
          /\ cfg.backoff_base_sec * (2 ^ calls[i - 1].attempt) > cfg.backoff_max_sec
          /\ calls[i].sec = cfg.backoff_max_sec + BackoffJitterMax

\* The GETs that delivered a response with a status outside 2xx
NonSuccessGets ==
    {i \in GetIndexes : ~calls[i].out.raised
                            /\ ~(200 <= calls[i].out.status /\ calls[i].out.status < 300)}

\* C15: a response is returned as success only if its status is 2xx; a
\* response with 403, 429 or any other status outside 2xx (1xx and 3xx
\* included) is a failed attempt: it is followed by the backoff sleep and
\* the next attempt or, with no attempt remaining, get_text raises the
\* HTTPError of that status.
C15_OnlySuccessReturned ==
    /\ hpc = "returned" =>
          /\ LastCall.op = "get"
          /\ 200 <= LastCall.out.status /\ LastCall.out.status < 300
    /\ \A i \in NonSuccessGets :
          \/ i < Len(calls) /\ calls[i + 1].op = "sleep" /\ calls[i + 1].site = "backoff"
          \/ /\ i = Len(calls)
             /\ hpc = "raised"
             /\ hres.kind = "raise"
             /\ hres.exc.type = "HTTPError"
             /\ hres.exc.status = calls[i].out.status

\* C15 for the statuses raise_for_status raises for: 403, 429 and every
\* other 4xx and 5xx response is a failed attempt
C15_ErrorStatusNeverReturned ==
    /\ hpc = "returned" => ~(400 <= LastCall.out.status /\ LastCall.out.status < 600)
    /\ \A i \in GetIndexes :
          (400 <= calls[i].out.status /\ calls[i].out.status < 600) =>
              \/ i < Len(calls) /\ calls[i + 1].op = "sleep"
              \/ i = Len(calls) /\ hpc = "raised" /\ hres.exc.status = calls[i].out.status

\* C20: whatever max_retries is, get_text issues at least one GET and ends
\* by returning the text of a response or by raising the request error of
\* an attempt; the statements after the loop are never reached with
\* last_exc unset.
C20_EndsByTextOrRequestError ==
    hpc \in {"returned", "raised"} =>
        /\ NumGets >= 1
        /\ \/ hres.kind = "text"
           \/ /\ hres.kind = "raise"
              /\ hres.exc.type \in {"RequestException", "HTTPError"}
              /\ hres.exc.attempt \in 0..(NumGets - 1)

\* C20 for max_retries >= 0
C20_EndsByTextOrRequestErrorNonNegative ==
    (hpc \in {"returned", "raised"} /\ cfg.max_retries >= 0) =>
        /\ NumGets >= 1
        /\ \/ hres.kind = "text"
           \/ /\ hres.kind = "raise"
              /\ hres.exc.type \in {"RequestException", "HTTPError"}
              /\ hres.exc.attempt \in 0..(NumGets - 1)

\* ------------------------------------------------------------------------
\* URLs, as urlparse sees them: netloc, path (its segments between the
\* slashes: /board/lostark/5558/1 is <<"board", "lostark", "5558", "1">>,
\* /staff/ is <<"staff", "">>), and query (its key=value pairs in order)
\* ------------------------------------------------------------------------

Url(netloc, path, query) == [netloc |-> netloc, path |-> path, query |-> query]

\* The hosts _assert_allowed_url accepts
AllowedHosts == {"m.inven.co.kr", "www.inven.co.kr", "inven.co.kr"}

\* DISALLOWED_PATH_PATTERNS, matched with re.match against the path:
\*   ^/board/prevnext\.php$  ^/powerbbs/prevnext\.php$  ^/staff/.*
\*   ^/webzine/prevnext\.php$
DisallowedPathPatterns ==
    {[first |-> "board", exact |-> TRUE], [first |-> "powerbbs", exact |-> TRUE],
     [first |-> "staff", exact |-> FALSE], [first |-> "webzine", exact |-> TRUE]}

\* r.match(path) for one compiled pattern
PatternMatches(pat, path) ==
    /\ Len(path) >= 2
    /\ path[1] = pat.first
    /\ pat.exact => (Len(path) = 2 /\ path[2] = "prevnext.php")

\* _is_disallowed_path
IsDisallowedPath(path) == \E pat \in DisallowedPathPatterns : PatternMatches(pat, path)

\* _assert_allowed_url: the ValueError it raises, or "ok"
AssertAllowedUrl(url) ==
    IF url.netloc \notin AllowedHosts THEN "ValueError: Unexpected host"
    ELSE IF IsDisallowedPath(url.path) THEN "ValueError: Disallowed path"
    ELSE "ok"

\* ------------------------------------------------------------------------
\* InvenCrawler.fetch_post and fetch_posts (src/pipelines/inven_crawler.py)
\* ------------------------------------------------------------------------

\* INVEN_BOARD_ID, the board the crawler is built for
BoardId == 5558

\* Optional values: None is <<>>, a value v is <<v>>
None == <<>>
Some(v) == <<v>>

PostRef(post_id, url, title, category) ==
    [board_id |-> BoardId, post_id |-> post_id, url |-> url,
     title |-> title, category |-> category]

PostPath(digits) == <<"board", "lostark", "5558", digits>>

\* The references fetch_posts is tried on: two that pass the guard, one on
\* a foreign host, one on an allowed host with a port, two with a disallowed
\* path, and /staff, which no pattern matches
RefPool ==
    {PostRef(1, Url("m.inven.co.kr", PostPath("1"), <<>>), <<"a">>, None),
     PostRef(2, Url("www.inven.co.kr", PostPath("2"), <<<<"p", "1">>>>), <<"b">>, Some(<<"Q">>)),
     PostRef(3, Url("evil.example", PostPath("3"), <<>>), <<"c">>, None),
     PostRef(4, Url("m.inven.co.kr:8080", PostPath("4"), <<>>), <<"d">>, None),
     PostRef(5, Url("m.inven.co.kr", <<"board", "prevnext.php">>, <<<<"idx", "1">>>>), <<"e">>, None),
     PostRef(6, Url("inven.co.kr", <<"staff", "x", "7">>, <<>>), <<"f">>, None),
     PostRef(7, Url("m.inven.co.kr", <<"staff">>, <<>>), <<"g">>, None)}

\* What the injected client's get_text(url) can do for the crawler: return
\* the page text, or raise what the retry loop lets through (HTTPError,
\* RequestException).  Its sleeps, GETs and retries all happen inside the
\* call (SpecHttp), so a url it was never called with saw none of them.
Htmls == {"post_page", "deeply_nested_page"}

HttpResults ==
    {[kind |-> "text", text |-> h, exc |-> "none"] : h \in Htmls}
        \cup {[kind |-> "raise", text |-> "none", exc |-> e] :
                 e \in {"HTTPError", "RequestException"}}

\* _parse_post_html raises on a page nested deeper than the interpreter's
\* recursion limit (BeautifulSoup's get_text recurses): RecursionError
ParseRaises(html) == html = "deeply_nested_page"

\* _parse_post_html(html, ref): the fields copied from the reference, and
\* the page the others are extracted from
ParsePostHtml(html, ref) ==
    [board_id |-> ref.board_id, post_id |-> ref.post_id, url |-> ref.url,
     category |-> ref.category, page |-> html]

FetchPostGuardAfterFetch(ref, httpRes) ==
    IF httpRes.kind = "raise"
    THEN [called |-> TRUE, text |-> "none", err |-> httpRes.exc]
    ELSE IF AssertAllowedUrl(ref.url) # "ok"
    THEN [called |-> TRUE, text |-> httpRes.text, err |-> AssertAllowedUrl(ref.url)]
    ELSE IF ParseRaises(httpRes.text)
    THEN [called |-> TRUE, text |-> httpRes.text, err |-> "RecursionError"]
    ELSE [called |-> TRUE, text |-> httpRes.text, err |-> "none"]

\* fetch_post(ref), given what http.get_text does if it is called: whether
\* it was called, the text it returned, and the exception fetch_post raises
\* ("none": it returns ParsePostHtml(text, ref))
FetchPost(ref, httpRes) ==
    IF AssertAllowedUrl(ref.url) # "ok"
    THEN [called |-> FALSE, text |-> "none", err |-> AssertAllowedUrl(ref.url)]
    ELSE IF httpRes.kind = "raise"
    THEN [called |-> TRUE, text |-> "none", err |-> httpRes.exc]
    ELSE IF ParseRaises(httpRes.text)
    THEN [called |-> TRUE, text |-> httpRes.text, err |-> "RecursionError"]
    ELSE [called |-> TRUE, text |-> httpRes.text, err |-> "none"]

CaughtOnlyRequestErrors(err) == err \in {"HTTPError", "RequestException"}

\* except Exception: ValueError, RequestException, HTTPError and
\* RecursionError are all subclasses of Exception
Caught(err) ==
    err \in {"ValueError: Unexpected host", "ValueError: Disallowed path",
             "HTTPError", "RequestException", "RecursionError"}

RECURSIVE SeqsUpTo(_, _)
SeqsUpTo(S, n) ==
    IF n = 0 THEN {<<>>}
    ELSE LET shorter == SeqsUpTo(S, n - 1)
         IN  shorter \cup {Append(q, x) : q \in {r \in shorter : Len(r) = n - 1}, x \in S}

CrawlIdle ==
    /\ cpc = "off"
    /\ refs = <<>>
    /\ ci = 1
    /\ posts = <<>>
    /\ events = <<>>
    /\ cexc = "none"

\* At the entry of fetch_posts(refs): posts = []
CrawlInit ==
    /\ refs \in SeqsUpTo(RefPool, MaxRefs)
    /\ cpc = "loop"
    /\ ci = 1
    /\ posts = <<>>
    /\ events = <<>>
    /\ cexc = "none"

\* One iteration of the for loop whose fetch_post(ref) returns
FetchPostsAppend ==
    /\ cpc = "loop"
    /\ ci <= Len(refs)
    /\ \E httpRes \in HttpResults :
          LET r == FetchPost(refs[ci], httpRes)
          IN  /\ r.err = "none"
              /\ posts' = Append(posts, ParsePostHtml(r.text, refs[ci]))
              /\ events' = Append(events, [ref |-> refs[ci], called |-> r.called,
                                           text |-> r.text, err |-> r.err])
    /\ ci' = ci + 1
    /\ UNCHANGED <<refs, cpc, cexc>>
    /\ CrawlFrame

\* One iteration whose fetch_post(ref) raises: the except clause logs the
\* warning and the loop goes on; an exception it does not catch leaves
\* fetch_posts
FetchPostsSkip ==
    /\ cpc = "loop"
    /\ ci <= Len(refs)
    /\ \E httpRes \in HttpResults :
          LET r == FetchPost(refs[ci], httpRes)
          IN  /\ r.err # "none"
              /\ events' = Append(events, [ref |-> refs[ci], called |-> r.called,
                                           text |-> r.text, err |-> r.err])
              /\ IF Caught(r.err)
                 THEN cpc' = "loop" /\ cexc' = cexc
                 ELSE cpc' = "raised" /\ cexc' = r.err
    /\ ci' = ci + 1
    /\ UNCHANGED <<refs, posts>>
    /\ CrawlFrame

\* The loop is over: return posts
FetchPostsReturn ==
    /\ cpc = "loop"
    /\ ci > Len(refs)
    /\ cpc' = "returned"
    /\ UNCHANGED <<refs, ci, posts, events, cexc>>
    /\ CrawlFrame

CrawlNext == FetchPostsAppend \/ FetchPostsSkip \/ FetchPostsReturn

\* ------------------------------------------------------------------------
\* Properties of fetch_post and fetch_posts
\* ------------------------------------------------------------------------

\* The policy of the claim, stated on the url itself: a host outside the
\* allowed set, or a path one of the four patterns matches
OutsidePolicy(url) ==
    \/ url.netloc \notin {"m.inven.co.kr", "www.inven.co.kr", "inven.co.kr"}
    \/ url.path \in {<<"board", "prevnext.php">>, <<"powerbbs", "prevnext.php">>,
                     <<"webzine", "prevnext.php">>}
    \/ (Len(url.path) >= 2 /\ url.path[1] = "staff")

\* C4: a reference whose url has a host outside the allowed set or a
\* disallowed path ends fetch_post with the policy error (ValueError) and
\* http.get_text is not called for it; so every call of http.get_text is for
\* a url that passed the guard.
C4_GuardBeforeFetch ==
    \A i \in DOMAIN events :
        /\ OutsidePolicy(events[i].ref.url) =>
              /\ ~events[i].called
              /\ events[i].err \in {"ValueError: Unexpected host",
                                    "ValueError: Disallowed path"}
        /\ events[i].called => ~OutsidePolicy(events[i].ref.url)

\* A batch with a foreign host, a disallowed path and a fetched reference
C4_Witness ==
    /\ cpc = "returned"
    /\ \E i, j, k \in DOMAIN events :
          /\ events[i].ref.url.netloc = "evil.example"
          /\ events[i].err = "ValueError: Unexpected host"
          /\ events[j].ref.url.path = <<"staff", "x", "7">>
          /\ events[j].err = "ValueError: Disallowed path"
          /\ events[k].called

\* The records of the iterations that succeeded, in order
RECURSIVE RecordsOf(_)
RecordsOf(evs) ==
    IF evs = <<>> THEN <<>>
    ELSE LET rest == RecordsOf(SubSeq(evs, 1, Len(evs) - 1))
             e == evs[Len(evs)]
         IN  IF e.err = "none"
             THEN Append(rest, [board_id |-> e.ref.board_id, post_id |-> e.ref.post_id,
                                url |-> e.ref.url, category |-> e.ref.category,
                                page |-> e.text])
             ELSE rest

FailedEvents == {i \in DOMAIN events : events[i].err # "none"}

\* C5: fetch_posts tries the references one by one in input order, each
\* once; a failure of one (policy, network or parse) never leaves
\* fetch_posts and never ends the loop; posts holds exactly the records of
\* the references that succeeded, in input order, so fetch_posts returns
\* Len(refs) minus the number of failures records.
C5_BatchIsolation ==
    /\ cpc # "raised"
    /\ cexc = "none"
    /\ Len(events) = ci - 1
    /\ Len(events) <= Len(refs)
    /\ \A i \in DOMAIN events : events[i].ref = refs[i]
    /\ posts = RecordsOf(events)
    /\ Len(posts) = Len(events) - Cardinality(FailedEvents)
    /\ cpc = "returned" =>
          /\ Len(events) = Len(refs)
          /\ Len(posts) = Len(refs) - Cardinality(FailedEvents)

\* Three references, the second fails parsing, two records are returned
C5_Witness ==
    /\ cpc = "returned"
    /\ Len(refs) = 3
    /\ FailedEvents = {2}
    /\ events[2].err = "RecursionError"
    /\ Len(posts) = 2
    /\ posts[1].post_id = refs[1].post_id
    /\ posts[2].post_id = refs[3].post_id


\* ------------------------------------------------------------------------
\* InvenCrawler._parse_list_html and its helpers
\* Strings the code takes apart (titles) are sequences of characters.
\* ------------------------------------------------------------------------

RECURSIVE LStrip(_)
LStrip(s) == IF s # <<>> /\ Head(s) = " " THEN LStrip(Tail(s)) ELSE s

RECURSIVE RStrip(_)
RStrip(s) ==
    IF s # <<>> /\ s[Len(s)] = " " THEN RStrip(SubSeq(s, 1, Len(s) - 1)) ELSE s

\* str.strip()
Strip(s) == RStrip(LStrip(s))

\* str.find(ch) + 1: the index of the first ch in s, 0 if there is none
IndexOf(s, ch) ==
    IF \E i \in DOMAIN s : s[i] = ch
    THEN CHOOSE i \in DOMAIN s : s[i] = ch /\ \A j \in 1..(i - 1) : s[j] # ch
    ELSE 0

\* _split_category with the pattern ^\[([^\]]{1,6})\]\s*(.*)$: the tag rule
\* also for a title with nothing after the closing bracket
SplitCategoryEmptyRemainder(title_raw) ==
    LET close == IndexOf(title_raw, "]")
        after == SubSeq(title_raw, close + 1, Len(title_raw))
        bracketed ==
            /\ title_raw # <<>>
            /\ title_raw[1] = "["
            /\ close - 2 >= 1
            /\ close - 2 <= 6
        space == IndexOf(title_raw, " ")
        cat == SubSeq(title_raw, 1, space - 1)
        rest == Strip(SubSeq(title_raw, space + 1, Len(title_raw)))
    IN  IF bracketed
        THEN [category |-> Some(SubSeq(title_raw, 2, close - 1)), title |-> Strip(after)]
        ELSE IF space > 0 /\ Len(cat) >= 1 /\ Len(cat) <= 6 /\ Len(rest) >= 2
        THEN [category |-> Some(Strip(cat)), title |-> rest]
        ELSE [category |-> None, title |-> Strip(title_raw)]

\* _split_category(title_raw): first ^\[([^\]]{1,6})\]\s*(.+)$, then the
\* first space-delimited token, else no category
SplitCategory(title_raw) ==
    LET close == IndexOf(title_raw, "]")
        after == SubSeq(title_raw, close + 1, Len(title_raw))
        bracketed ==
            /\ title_raw # <<>>
            /\ title_raw[1] = "["
            /\ close - 2 >= 1
            /\ close - 2 <= 6
            /\ after # <<>>
        space == IndexOf(title_raw, " ")
        cat == SubSeq(title_raw, 1, space - 1)
        rest == Strip(SubSeq(title_raw, space + 1, Len(title_raw)))
    IN  IF bracketed
        THEN [category |-> Some(SubSeq(title_raw, 2, close - 1)), title |-> Strip(after)]
        ELSE IF space > 0 /\ Len(cat) >= 1 /\ Len(cat) <= 6 /\ Len(rest) >= 2
        THEN [category |-> Some(Strip(cat)), title |-> rest]
        ELSE [category |-> None, title |-> Strip(title_raw)]

\* The path segments \d+ matches, and int() of each
DigitSegments == {"1", "01", "2", "3"}

IntOf(digits) ==
    CASE digits = "1" -> 1
      [] digits = "01" -> 1
      [] digits = "2" -> 2
      [] digits = "3" -> 3

\* str(self.board_id) in the compiled pattern
BoardIdSegment == "5558"

\* self._post_path_re.match(path): ^/board/[^/]+/<board_id>/(\d+)$
PostPathMatches(path) ==
    /\ Len(path) = 4
    /\ path[1] = "board"
    /\ path[2] # ""
    /\ path[3] = BoardIdSegment
    /\ path[4] \in DigitSegments

\* urljoin("https://m.inven.co.kr", href_raw): a relative href (no netloc)
\* is resolved against the mobile host, an absolute one is kept
UrlJoin(href) ==
    IF href.netloc = "" THEN Url("m.inven.co.kr", href.path, href.query) ELSE href

Anchor(href, text) == [href |-> href, text |-> text]

\* The loop body of _parse_list_html for one anchor: the references it
\* appends to out (none or one)
ParseAnchor(a) ==
    LET abs_url == UrlJoin(a.href)
        path == abs_url.path
        split == SplitCategory(a.text)
    IN  IF ~PostPathMatches(path) THEN <<>>
        ELSE IF IsDisallowedPath(path) THEN <<>>
        ELSE IF a.text = <<>> THEN <<>>
        ELSE <<PostRef(IntOf(path[4]), abs_url, split.title, split.category)>>

\* _parse_list_html(html), html given as its anchors in document order
\* with the text get_text(" ", strip=True) gives for each
RECURSIVE ParseListHtml(_)
ParseListHtml(anchors) ==
    IF anchors = <<>> THEN <<>>
    ELSE ParseListHtml(SubSeq(anchors, 1, Len(anchors) - 1))
             \o ParseAnchor(anchors[Len(anchors)])

\* The anchors list pages are made of: post 1 twice, under two urls and
\* titles; post 2; the robots-disallowed prevnext link; a post link without
\* text; post 3 on a foreign host; a post of another board
AnchorPool ==
    {Anchor(Url("", PostPath("1"), <<>>), <<"[", "Q", "]", " ", "a", "b">>),
     Anchor(Url("", PostPath("01"), <<<<"category", "abc">>>>), <<"[", "3", "]">>),
     Anchor(Url("m.inven.co.kr", PostPath("2"), <<<<"p", "1">>>>), <<"x", "y", " ", "a", "b", "c">>),
     Anchor(Url("", <<"board", "prevnext.php">>, <<<<"idx", "1">>>>), <<"p", "r", "e", "v">>),
     Anchor(Url("", PostPath("3"), <<>>), <<>>),
     Anchor(Url("evil.example", PostPath("3"), <<>>), <<"z", "z">>),
     Anchor(Url("", <<"board", "lostark", "9999", "2">>, <<>>), <<"o">>)}

\* The list pages get_text can return
PagePool == SeqsUpTo(AnchorPool, MaxAnchors)

\* refs = self._parse_list_html(html) for the html of every list page
ParsedPages == {ParseListHtml(html) : html \in PagePool}

ListIdle ==
    /\ lpc = "off"
    /\ lhtml = <<>>
    /\ lout = <<>>

\* At the entry of _parse_list_html(html)
ListInit ==
    /\ lpc = "start"
    /\ lhtml \in PagePool
    /\ lout = <<>>

\* The whole of _parse_list_html: return out
ParseList ==
    /\ lpc = "start"
    /\ lout' = ParseListHtml(lhtml)
    /\ lpc' = "parsed"
    /\ UNCHANGED lhtml
    /\ ListFrame

ListNext == ParseList

\* ------------------------------------------------------------------------
\* InvenCrawler._split_category on its own
\* ------------------------------------------------------------------------

\* The characters titles are made of
TitleChars == {"[", "]", " ", "a"}

RECURSIVE Rep(_, _)
Rep(ch, n) == IF n = 0 THEN <<>> ELSE <<ch>> \o Rep(ch, n - 1)

\* Titles around the {1,6} bound of the pattern and the 1 <= len <= 6 test
\* of the token rule: a bracketed tag and a first token of 6 and 7
\* characters
LongTitles ==
    {<<"[">> \o Rep("a", n) \o <<"]", "a">> : n \in 6..7}
        \cup {Rep("a", n) \o <<" ", "a", "a">> : n \in 6..7}

\* title_raw = a.get_text(" ", strip=True), not empty (the `continue` of
\* _parse_list_html): stripped and non-empty
TitleRaws ==
    {t \in SeqsUpTo(TitleChars, MaxTitleLen) : t # <<>> /\ Strip(t) = t} \cup LongTitles

SplitIdle ==
    /\ spc = "off"
    /\ raw_title = <<>>
    /\ split_out = [category |-> None, title |-> <<>>]

\* At the call self._split_category(title_raw) of _parse_list_html
SplitInit ==
    /\ spc = "start"
    /\ raw_title \in TitleRaws
    /\ split_out = [category |-> None, title |-> <<>>]

\* category, title = self._split_category(title_raw)
SplitCategoryCall ==
    /\ spc = "start"
    /\ split_out' = SplitCategory(raw_title)
    /\ spc' = "done"
    /\ UNCHANGED raw_title
    /\ SplitFrame

SplitNext == SplitCategoryCall

\* ------------------------------------------------------------------------
\* Properties of _split_category
\* ------------------------------------------------------------------------

\* The index of the first "]" of a title that starts with "[", 0 otherwise
TagClose(t) == IF t # <<>> /\ t[1] = "[" THEN IndexOf(t, "]") ELSE 0

\* The title starts with [X], X of 1 to 6 characters
StartsWithTag(t) == TagClose(t) >= 3 /\ TagClose(t) <= 8

\* The first space-delimited token and what follows its space
FirstToken(t) == SubSeq(t, 1, IndexOf(t, " ") - 1)
AfterToken(t) == Strip(SubSeq(t, IndexOf(t, " ") + 1, Len(t)))

TokenRule(t) ==
    /\ IndexOf(t, " ") > 0
    /\ Len(FirstToken(t)) >= 1
    /\ Len(FirstToken(t)) <= 6
    /\ Len(AfterToken(t)) >= 2

BoardBaseUrl == Url("m.inven.co.kr", <<"board", "lostark", "5558">>, <<>>)

\* str(page) for the page numbers of the model
StrOfInt(n) ==
    CASE n = 0 -> "0" [] n = 1 -> "1" [] n = 2 -> "2" [] n = 3 -> "3"
      [] n = 4 -> "4" [] n = 5 -> "5" [] n = 6 -> "6" [] n = 7 -> "7"
      [] n = 8 -> "8" [] n = 9 -> "9"

\* d[key] = value on a dict given as its items in insertion order
RECURSIVE DictSet(_, _, _)
DictSet(items, key, value) ==
    IF items = <<>> THEN <<<<key, value>>>>
    ELSE IF Head(items)[1] = key THEN <<<<key, value>>>> \o Tail(items)
    ELSE <<Head(items)>> \o DictSet(Tail(items), key, value)

\* dict(parse_qsl(query)): pairs with a blank value are dropped, a repeated
\* key keeps its first place and its last value
RECURSIVE DictOfQuery(_)
DictOfQuery(query) ==
    IF query = <<>> THEN <<>>
    ELSE LET before == DictOfQuery(SubSeq(query, 1, Len(query) - 1))
             kv == query[Len(query)]
         IN  IF kv[2] = "" THEN before ELSE DictSet(before, kv[1], kv[2])

\* _build_list_url(page) of a crawler whose board_base_url is base:
\* urlunparse(parsed._replace(query=urlencode(q)))
BuildListUrlFrom(base, pg) ==
    IF pg <= 1 THEN base
    ELSE [base EXCEPT !.query = DictSet(DictOfQuery(base.query), "p", StrOfInt(pg))]

\* _build_list_url(page)
BuildListUrl(pg) == BuildListUrlFrom(BoardBaseUrl, pg)

\* collected[ref.post_id] = ref: a key already present keeps its place and
\* takes the new value
RECURSIVE CollectedSet(_, _)
CollectedSet(coll, ref) ==
    IF coll = <<>> THEN <<ref>>
    ELSE IF Head(coll).post_id = ref.post_id THEN <<ref>> \o Tail(coll)
    ELSE <<Head(coll)>> \o CollectedSet(Tail(coll), ref)

\* len(collected) >= max_posts
Full(coll) == Len(coll) >= max_posts

EmptyNever(parsed) == FALSE

\* not refs
Empty(parsed) == parsed = <<>>

\* The inner loop: for ref in refs: collected[ref.post_id] = ref, leaving
\* the loop once len(collected) >= max_posts
RECURSIVE Merge(_, _)
Merge(coll, parsed) ==
    IF parsed = <<>> THEN coll
    ELSE LET c2 == CollectedSet(coll, Head(parsed))
         IN  IF Full(c2) THEN c2 ELSE Merge(c2, Tail(parsed))

\* The first occurrence of every post_id of old \o parsed (history kept
\* for the properties)
RECURSIVE FirstOccurrences(_, _)
FirstOccurrences(old, parsed) ==
    IF parsed = <<>> THEN old
    ELSE IF \E i \in DOMAIN old : old[i].post_id = Head(parsed).post_id
    THEN FirstOccurrences(old, Tail(parsed))
    ELSE FirstOccurrences(Append(old, Head(parsed)), Tail(parsed))

NoRefs == [kind |-> "none", list |-> <<>>, exc |-> "none"]

RefsIdle ==
    /\ rpc = "off"
    /\ max_pages = 0
    /\ max_posts = 0
    /\ page = 1
    /\ collected = <<>>
    /\ pageLog = <<>>
    /\ firstSeen = <<>>
    /\ rres = NoRefs

\* At the entry of fetch_post_refs(max_pages, max_posts): collected = {}
RefsInit ==
    /\ rpc = "loop"
    /\ max_pages \in 0..MaxPages
    /\ max_posts \in 0..MaxPosts
    /\ page = 1
    /\ collected = <<>>
    /\ pageLog = <<>>
    /\ firstSeen = <<>>
    /\ rres = NoRefs

PageEntry(ok, n) == [page |-> page, url |-> BuildListUrl(page), ok |-> ok, n |-> n]

\* fetch_board_list_html(page) raises what get_text raised: it leaves
\* fetch_post_refs
RefsFetchRaises ==
    /\ rpc = "loop"
    /\ page <= max_pages
    /\ \E e \in {"HTTPError", "RequestException"} :
          rres' = [kind |-> "raise", list |-> <<>>, exc |-> e]
    /\ pageLog' = Append(pageLog, PageEntry(FALSE, 0))
    /\ rpc' = "raised"
    /\ UNCHANGED <<max_pages, max_posts, page, collected, firstSeen>>
    /\ RefsFrame

\* An iteration that ends at the first break: len(collected) >= max_posts
RefsPageFull ==
    /\ rpc = "loop"
    /\ page <= max_pages
    /\ \E parsed \in ParsedPages :
          LET merged == Merge(collected, parsed)
          IN  /\ Full(merged)
              /\ collected' = merged
              /\ pageLog' = Append(pageLog, PageEntry(TRUE, Len(parsed)))
              /\ firstSeen' = FirstOccurrences(firstSeen, parsed)
              /\ rres' = [kind |-> "return", list |-> merged, exc |-> "none"]
    /\ rpc' = "returned"
    /\ UNCHANGED <<max_pages, max_posts, page>>
    /\ RefsFrame

\* An iteration that ends at the second break: the page gave no reference
RefsPageEmpty ==
    /\ rpc = "loop"
    /\ page <= max_pages
    /\ \E parsed \in ParsedPages :
          LET merged == Merge(collected, parsed)
          IN  /\ ~Full(merged)
              /\ Empty(parsed)
              /\ collected' = merged
              /\ pageLog' = Append(pageLog, PageEntry(TRUE, Len(parsed)))
              /\ firstSeen' = FirstOccurrences(firstSeen, parsed)
              /\ rres' = [kind |-> "return", list |-> merged, exc |-> "none"]
    /\ rpc' = "returned"
    /\ UNCHANGED <<max_pages, max_posts, page>>
    /\ RefsFrame

\* An iteration that reaches its end: on to the next page
RefsPageNext ==
    /\ rpc = "loop"
    /\ page <= max_pages
    /\ \E parsed \in ParsedPages :
          LET merged == Merge(collected, parsed)
          IN  /\ ~Full(merged)
              /\ ~Empty(parsed)
              /\ collected' = merged
              /\ pageLog' = Append(pageLog, PageEntry(TRUE, Len(parsed)))
              /\ firstSeen' = FirstOccurrences(firstSeen, parsed)
    /\ page' = page + 1
    /\ UNCHANGED <<rpc, max_pages, max_posts, rres>>
    /\ RefsFrame

\* range(1, max_pages + 1) is exhausted: return list(collected.values())
RefsLoopEnd ==
    /\ rpc = "loop"
    /\ page > max_pages
    /\ rres' = [kind |-> "return", list |-> collected, exc |-> "none"]
    /\ rpc' = "returned"
    /\ UNCHANGED <<max_pages, max_posts, page, collected, pageLog, firstSeen>>
    /\ RefsFrame

RefsNext == RefsFetchRaises \/ RefsPageFull \/ RefsPageEmpty \/ RefsPageNext \/ RefsLoopEnd

\* ------------------------------------------------------------------------
\* Properties of _parse_list_html and fetch_post_refs
\* ------------------------------------------------------------------------

\* C6: the list _parse_list_html returns for one page holds at most one
\* PostRef per post_id, however many anchors of the page reference it.
C6_ListDeduplicated ==
    lpc = "parsed" =>
        \A i, j \in DOMAIN lout : i # j => lout[i].post_id # lout[j].post_id

\* C21: every PostRef _parse_list_html returns points at the target site:
\* its url passes _assert_allowed_url (its host is one of the allowed hosts
\* and its path is not disallowed), whatever the href of the anchor,
\* absolute hrefs to other hosts included.
C21_RefsPassUrlGuard ==
    lpc = "parsed" =>
        \A i \in DOMAIN lout : AssertAllowedUrl(lout[i].url) = "ok"

\* C21 for the path alone, and for relative hrefs: the path of every
\* PostRef is a post path of the board and is not disallowed, and the
\* PostRef of an anchor with a relative href is on the mobile host
C21_RefPathsAllowed ==
    lpc = "parsed" =>
        /\ \A i \in DOMAIN lout :
               /\ PostPathMatches(lout[i].url.path)
               /\ ~IsDisallowedPath(lout[i].url.path)
        /\ (\A k \in DOMAIN lhtml : lhtml[k].href.netloc = "") =>
               \A i \in DOMAIN lout : AssertAllowedUrl(lout[i].url) = "ok"

UniqueIds(list) ==
    \A i, j \in DOMAIN list : i # j => list[i].post_id # list[j].post_id

\* C7: the list fetch_post_refs returns holds at most one PostRef per
\* post_id, each is the first occurrence of its post_id among the parsed
\* references (url, title and category), and they stand in order of first
\* occurrence.
C7_FirstOccurrenceWins ==
    rpc = "returned" =>
        /\ UniqueIds(rres.list)
        /\ Len(rres.list) <= Len(firstSeen)
        /\ \A i \in DOMAIN rres.list : rres.list[i] = firstSeen[i]

\* C7 without the first-occurrence part: one PostRef per post_id, in order
\* of first occurrence.
C7_UniqueInFirstOrder ==
    rpc = "returned" =>
        /\ UniqueIds(rres.list)
        /\ Len(rres.list) <= Len(firstSeen)
        /\ \A i \in DOMAIN rres.list : rres.list[i].post_id = firstSeen[i].post_id

\* C8: list pages are fetched in order 1, 2, ..., never more than max_pages
\* of them; a page that parses to zero references is the last one fetched,
\* and fetch_post_refs has then returned, without error, the references
\* accumulated so far.
C8_StopOnEmptyPage ==
    /\ Len(pageLog) <= max_pages
    /\ \A i \in DOMAIN pageLog :
          /\ pageLog[i].page = i
          /\ (pageLog[i].ok /\ pageLog[i].n = 0) =>
                /\ i = Len(pageLog)
                /\ rpc = "returned"
                /\ rres.kind = "return"
                /\ rres.list = collected

\* The second page of three allowed parsed to nothing: the references of
\* the first page are returned and no third page is fetched
C8_Witness ==
    /\ rpc = "returned"
    /\ max_pages = 3
    /\ Len(pageLog) = 2
    /\ pageLog[1].n > 0
    /\ pageLog[2].ok
    /\ pageLog[2].n = 0
    /\ rres.list # <<>>

\* C9: for every max_posts >= 0 the list fetch_post_refs returns has at
\* most max_posts references.
C9_AtMostMaxPosts ==
    rpc = "returned" => Len(rres.list) <= max_posts

\* C9 for max_posts >= 1, and its second half: a page is fetched only
\* while fewer than max_posts references are accumulated.
C9_AtMostMaxPostsWhenPositive ==
    /\ (rpc = "returned" /\ max_posts >= 1) => Len(rres.list) <= max_posts
    /\ (rpc = "loop" /\ pageLog # <<>>) => Len(collected) < max_posts

\* ------------------------------------------------------------------------
\* InvenCrawler._parse_post_html: the detail extractor
\* A page is its list of non-blank stripped text lines; a line is the list
\* of its space-separated words.  The Korean markers of the source are
\* written in English: "view:" is the view-count marker, "rec:" the
\* recommend-count marker, "report-confirm", "list", ... the stop markers,
\* "now hot inven" the trending-banner prefix.
\* ------------------------------------------------------------------------

\* The words \b20\d{2}-\d{2}-\d{2} matches
DateWords == {"2026-01-28"}

\* The words \d{2}:\d{2}:\d{2}\b matches
TimeWords == {"13:28:48"}

\* Times of day without seconds: \d{2}:\d{2}:\d{2}\b does not match them
MinuteWords == {"13:28"}

\* lines[:140] in _extract_created_at and _extract_author
CreatedAtWindow == 140

\* lines[:90] in _extract_content
TitleWindow == 90

\* re.search of the date-time pattern in one line: the positions where a
\* match starts
TimestampStarts(ln) ==
    {i \in 1..(Len(ln) - 1) : ln[i] \in DateWords /\ ln[i + 1] \in TimeWords}

HasTimestamp(ln) == TimestampStarts(ln) # {}

\* m.group(0): the leftmost match
TimestampOf(ln) ==
    LET i == CHOOSE k \in TimestampStarts(ln) : \A j \in TimestampStarts(ln) : k <= j
    IN  SubSeq(ln, i, i + 1)

\* The index of the first line of lines[:140] the pattern is found in, 0 if
\* there is none
FirstTimestampLine(lines) ==
    LET found == {i \in DOMAIN lines : i <= CreatedAtWindow /\ HasTimestamp(lines[i])}
    IN  IF found = {} THEN 0 ELSE CHOOSE i \in found : \A j \in found : i <= j

\* _extract_created_at
ExtractCreatedAt(lines) ==
    IF FirstTimestampLine(lines) = 0 THEN None
    ELSE Some(TimestampOf(lines[FirstTimestampLine(lines)]))

\* prefix-of: ln.startswith(prefix), on words
StartsWith(ln, prefix) ==
    /\ Len(ln) >= Len(prefix)
    /\ SubSeq(ln, 1, Len(prefix)) = prefix

\* needle in ln, on words
Contains(ln, needle) ==
    \E i \in 1..(Len(ln) - Len(needle) + 1) : SubSeq(ln, i, i + Len(needle) - 1) = needle

\* The number of characters of a line of the model's words
WordLen(w) ==
    CASE w = "nick" -> 4
      [] w = "inven-notice-board-of-the-day" -> 29
      [] OTHER -> 5

RECURSIVE CharLen(_)
CharLen(ln) ==
    IF ln = <<>> THEN 0
    ELSE IF Len(ln) = 1 THEN WordLen(ln[1])
    ELSE WordLen(Head(ln)) + 1 + CharLen(Tail(ln))

\* The words one of the noise words of _extract_author occurs in
NoiseWords == {"inven", "inven-notice-board-of-the-day"}

\* _extract_author: the line before the first view-count line of
\* lines[:140], if it is 1 to 20 characters long and free of noise words
ExtractAuthor(lines) ==
    LET views == {i \in DOMAIN lines :
                     i <= CreatedAtWindow /\ StartsWith(lines[i], <<"view:">>) /\ i > 1}
        i == CHOOSE k \in views : \A j \in views : k <= j
        cand == lines[i - 1]
    IN  IF views = {} THEN None
        ELSE IF CharLen(cand) >= 1 /\ CharLen(cand) <= 20
                  /\ \A k \in DOMAIN cand : cand[k] \notin NoiseWords
        THEN Some(cand)
        ELSE None

\* stop_markers
StopMarkers ==
    {<<"report-confirm">>, <<"report">>, <<"spam-report">>, <<"share">>,
     <<"scrap">>, <<"write-comment">>, <<"view-comments">>, <<"list">>}

TrendingPrefix == <<"now", "hot", "inven">>

\* start_idx of _extract_content (0-based, so the 1-based index of the
\* line before the first one collected): after the first line that equals
\* created_at if there is one, else after the first line of lines[:90]
\* the title occurs in, else 0
StartIdx(lines, created, title) ==
    IF created # None /\ \E i \in DOMAIN lines : lines[i] = created[1]
    THEN CHOOSE i \in DOMAIN lines :
             lines[i] = created[1] /\ \A j \in 1..(i - 1) : lines[j] # created[1]
    ELSE LET hits == {i \in DOMAIN lines :
                         i <= TitleWindow /\ title # <<>> /\ Contains(lines[i], title)}
         IN  IF hits = {} THEN 0 ELSE CHOOSE i \in hits : \A j \in hits : i <= j

\* The second loop of _extract_content with `continue` in the place of the
\* `break` on a stop marker
RECURSIVE BodySkipsStopMarkers(_)
BodySkipsStopMarkers(rest) ==
    IF rest = <<>> THEN <<>>
    ELSE IF Head(rest) \in StopMarkers THEN BodySkipsStopMarkers(Tail(rest))
    ELSE IF StartsWith(Head(rest), TrendingPrefix) THEN <<>>
    ELSE IF StartsWith(Head(rest), <<"view:">>) \/ StartsWith(Head(rest), <<"rec:">>)
    THEN BodySkipsStopMarkers(Tail(rest))
    ELSE <<Head(rest)>> \o BodySkipsStopMarkers(Tail(rest))

\* The second loop of _extract_content over lines[start_idx:]: the lines
\* of body
RECURSIVE Body(_)
Body(rest) ==
    IF rest = <<>> THEN <<>>
    ELSE IF Head(rest) \in StopMarkers THEN <<>>
    ELSE IF StartsWith(Head(rest), TrendingPrefix) THEN <<>>
    ELSE IF StartsWith(Head(rest), <<"view:">>) \/ StartsWith(Head(rest), <<"rec:">>)
    THEN Body(Tail(rest))
    ELSE <<Head(rest)>> \o Body(Tail(rest))

\* _extract_content: "\n".join(body).strip(), as the list of its lines
ExtractContent(lines, created, title) ==
    Body(SubSeq(lines, StartIdx(lines, created, title) + 1, Len(lines)))

\* The text lines detail pages are made of: a line that is a timestamp, a
\* timestamp without seconds, a line with a timestamp after a label, the
\* title, a nickname, body text, a stop marker, a view-count line, a
\* recommend-count line and the trending banner
LinePool ==
    {<<"2026-01-28", "13:28:48">>,
     <<"2026-01-28", "13:28">>,
     <<"written", "2026-01-28", "13:28:48">>,
     <<"title">>,
     <<"nick">>,
     <<"body", "text">>,
     <<"report-confirm">>,
     <<"view:", "45">>,
     <<"rec:", "3">>,
     <<"now", "hot", "inven", "posts">>}

\* The h2 heading of the page or, without one, the title of the reference
TitlePool == {<<"title">>, <<"other", "title">>}

DetailIdle ==
    /\ dpc = "off"
    /\ dlines = <<>>
    /\ dtitle = <<>>
    /\ created_at = None
    /\ author = None
    /\ start_idx = 0
    /\ content = <<>>

\* In _parse_post_html, once title and lines are computed
DetailInit ==
    /\ dpc = "start"
    /\ dlines \in SeqsUpTo(LinePool, MaxLines)
    /\ dtitle \in TitlePool
    /\ created_at = None
    /\ author = None
    /\ start_idx = 0
    /\ content = <<>>

\* created_at, author and content of the BoardPost
ParsePost ==
    /\ dpc = "start"
    /\ created_at' = ExtractCreatedAt(dlines)
    /\ author' = ExtractAuthor(dlines)
    /\ start_idx' = StartIdx(dlines, ExtractCreatedAt(dlines), dtitle)
    /\ content' = ExtractContent(dlines, ExtractCreatedAt(dlines), dtitle)
    /\ dpc' = "parsed"
    /\ UNCHANGED <<dlines, dtitle>>
    /\ DetailFrame

DetailNext == ParsePost

\* ------------------------------------------------------------------------
\* Properties of the detail extractor
\* ------------------------------------------------------------------------

\* The index of the first stop-marker line after line f, Len + 1 if none
FirstStopAfter(f) ==
    LET stops == {i \in DOMAIN dlines : i > f /\ dlines[i] \in StopMarkers}
    IN  IF stops = {} THEN Len(dlines) + 1 ELSE CHOOSE i \in stops : \A j \in stops : i <= j

RECURSIVE IsSubsequence(_, _)
IsSubsequence(a, b) ==
    IF a = <<>> THEN TRUE
    ELSE IF b = <<>> THEN FALSE
    ELSE IF Head(a) = Head(b) THEN IsSubsequence(Tail(a), Tail(b))
    ELSE IsSubsequence(a, Tail(b))

\* C10: whenever created_at is found, the content starts at the line after
\* the line the timestamp was found in and holds only lines between that
\* line and the first stop marker after it, whether the timestamp is the
\* whole line or a part of it.
C10_ContentAfterTimestamp ==
    (dpc = "parsed" /\ created_at # None) =>
        /\ start_idx = FirstTimestampLine(dlines)
        /\ IsSubsequence(content,
                         SubSeq(dlines, FirstTimestampLine(dlines) + 1,
                                FirstStopAfter(FirstTimestampLine(dlines)) - 1))

\* C10 for a timestamp that is a whole line
C10_ContentAfterWholeLineTimestamp ==
    (dpc = "parsed" /\ created_at # None
        /\ dlines[FirstTimestampLine(dlines)] = created_at[1]) =>
        /\ start_idx = FirstTimestampLine(dlines)
        /\ IsSubsequence(content,
                         SubSeq(dlines, FirstTimestampLine(dlines) + 1,
                                FirstStopAfter(FirstTimestampLine(dlines)) - 1))

\* The line carries the pattern YYYY-MM-DD HH:MM with optional :SS
CarriesDateTime(ln) ==
    \E i \in 1..(Len(ln) - 1) :
        ln[i] \in DateWords /\ ln[i + 1] \in TimeWords \cup MinuteWords

\* The lines of the first 140 that carry it
DateTimeLines == {i \in DOMAIN dlines : i <= 140 /\ CarriesDateTime(dlines[i])}

\* C18: created_at is the first match, over the first 140 lines in order,
\* of the pattern YYYY-MM-DD HH:MM with optional :SS; a timestamp without
\* seconds is recognised as well as one with seconds, and created_at is
\* absent only if no line of the window carries the pattern.
C18_CreatedAtFirstDateTime ==
    dpc = "parsed" =>
        /\ created_at = None => DateTimeLines = {}
        /\ created_at # None =>
              \E i \in DateTimeLines :
                  /\ \A j \in DateTimeLines : i <= j
                  /\ Contains(dlines[i], created_at[1])

\* C18 for the pattern with seconds: created_at is the first match of
\* YYYY-MM-DD HH:MM:SS and is absent only if no line carries one
C18_CreatedAtFirstDateTimeWithSeconds ==
    dpc = "parsed" =>
        LET withSeconds ==
                {i \in DOMAIN dlines :
                    i <= 140 /\ \E k \in 1..(Len(dlines[i]) - 1) :
                                    dlines[i][k] \in DateWords /\ dlines[i][k + 1] \in TimeWords}
        IN  /\ created_at = None => withSeconds = {}
            /\ created_at # None =>
                  \E i \in withSeconds :
                      /\ \A j \in withSeconds : i <= j
                      /\ Contains(dlines[i], created_at[1])

\* The index of the first line after line f that ends the content: a stop
\* marker or the trending banner, Len + 1 if there is none
FirstEndAfter(f) ==
    LET ends == {i \in DOMAIN dlines :
                    i > f /\ (dlines[i] \in StopMarkers
                              \/ StartsWith(dlines[i], TrendingPrefix))}
    IN  IF ends = {} THEN Len(dlines) + 1 ELSE CHOOSE i \in ends : \A j \in ends : i <= j

\* C11: the content holds no stop-marker line, no line starting with the
\* trending-banner prefix, no line starting with the view-count or the
\* recommend-count marker, and only lines from between the content start
\* index and the first stop marker at or after it.
C11_NoStopMarkerInContent ==
    dpc = "parsed" =>
        /\ \A i \in DOMAIN content :
               /\ content[i] \notin StopMarkers
               /\ ~StartsWith(content[i], TrendingPrefix)
               /\ ~StartsWith(content[i], <<"view:">>)
               /\ ~StartsWith(content[i], <<"rec:">>)
        /\ IsSubsequence(content,
                         SubSeq(dlines, start_idx + 1, FirstStopAfter(start_idx) - 1))
        /\ IsSubsequence(content,
                         SubSeq(dlines, start_idx + 1, FirstEndAfter(start_idx) - 1))

\* C11 happens: a page with a count line and body text before its first
\* stop marker and body text after it
C11_Witness ==
    /\ dpc = "parsed"
    /\ content # <<>>
    /\ FirstStopAfter(start_idx) < Len(dlines)
    /\ dlines[Len(dlines)] \notin StopMarkers
    /\ \E i \in (start_idx + 1)..(FirstStopAfter(start_idx) - 1) :
           StartsWith(dlines[i], <<"view:">>) \/ StartsWith(dlines[i], <<"rec:">>)

\* ------------------------------------------------------------------------
\* SentimentModel.predict (src/pipelines/sentiment_model.py)
\* Texts are sequences of characters, probabilities are counted in tenths.
\* ------------------------------------------------------------------------

\* An empty text, a blank one and one with words
Texts == {<<>>, <<" ">>, <<" ", "g">>}

\* The rows softmax can give: negative, positive, and undecided below a
\* neutral floor of 5
ModelProbs ==
    {[neg |-> 8, neu |-> 1, pos |-> 1],
     [neg |-> 1, neu |-> 1, pos |-> 8],
     [neg |-> 4, neu |-> 2, pos |-> 4]}

\* batch_size and max_length are unvalidated integers of the settings
SentimentModelConfigs ==
    [batch_size : 0..MaxBatch, max_length : {0, 256}, neutral_floor : {0, 5}]

\* `not str(t).strip()` with a test for the empty string only
IsBlankOnlyEmpty(t) == t = <<>>

\* t is None or not str(t).strip()
IsBlank(t) == Strip(t) = <<>>

\* _argmax_label
ArgmaxLabel(neg, neu, pos) ==
    IF pos >= neu /\ pos >= neg THEN "pos"
    ELSE IF neg >= neu /\ neg >= pos THEN "neg"
    ELSE "neu"

Max3(a, b, c) == IF a >= b /\ a >= c THEN a ELSE IF b >= c THEN b ELSE c

SentimentResult(label, score, probs) == [label |-> label, score |-> score, probs |-> probs]

\* The result of _predict_batch for an empty_mask entry that is True
NeutralResult == SentimentResult("neu", 0, [neg |-> 0, neu |-> 10, pos |-> 0])

\* One iteration of the second loop of _predict_batch: the result for text
\* t and row p of probs
PredictRow(t, p, floor) ==
    IF IsBlank(t) THEN NeutralResult
    ELSE SentimentResult(
             IF floor > 0 /\ Max3(p.neg, p.neu, p.pos) < floor
             THEN "neu" ELSE ArgmaxLabel(p.neg, p.neu, p.pos),
             p.pos - p.neg,
             p)

\* _predict_batch(texts) when the model gives probs: one result per row
PredictBatch(batch, probs, floor) ==
    [i \in 1..Len(probs) |-> PredictRow(batch[i], probs[i], floor)]

\* items[i : i + batch_size] of _batched, i counted from 0
Batch(seq, i, batch_size) ==
    SubSeq(seq, i + 1, IF i + batch_size <= Len(seq) THEN i + batch_size ELSE Len(seq))

PredictIdle ==
    /\ ppc = "off"
    /\ mcfg = [batch_size |-> 0, max_length |-> 0, neutral_floor |-> 0]
    /\ texts = <<>>
    /\ bi = 0
    /\ results = <<>>
    /\ batches = <<>>

\* At the entry of predict(texts)
PredictInit ==
    /\ ppc = "start"
    /\ mcfg \in SentimentModelConfigs
    /\ texts \in SeqsUpTo(Texts, MaxTexts)
    /\ bi = 0
    /\ results = <<>>
    /\ batches = <<>>

\* raise ValueError("batch_size must be > 0") / ("max_length must be > 0")
PredictInvalid ==
    /\ ppc = "start"
    /\ mcfg.batch_size <= 0 \/ mcfg.max_length <= 0
    /\ ppc' = "raised"
    /\ UNCHANGED <<mcfg, texts, bi, results, batches>>
    /\ PredictFrame

\* Both checks pass: results = [] and the loop starts
PredictStart ==
    /\ ppc = "start"
    /\ ~(mcfg.batch_size <= 0 \/ mcfg.max_length <= 0)
    /\ ppc' = "loop"
    /\ UNCHANGED <<mcfg, texts, bi, results, batches>>
    /\ PredictFrame

\* One iteration of `for batch in _batched(...)`:
\* results.extend(self._predict_batch(batch)); the model gives one row of
\* probs per text of the batch
PredictBatchStep ==
    /\ ppc = "loop"
    /\ bi < Len(texts)
    /\ LET batch == Batch(texts, bi, mcfg.batch_size)
       IN  \E probs \in [1..Len(batch) -> ModelProbs] :
               /\ results' = results \o PredictBatch(batch, probs, mcfg.neutral_floor)
               /\ batches' = Append(batches, [texts |-> batch, probs |-> probs])
    /\ bi' = bi + mcfg.batch_size
    /\ UNCHANGED <<mcfg, texts, ppc>>
    /\ PredictFrame

\* The tokenizer or the model raises in _predict_batch
PredictBatchRaises ==
    /\ ppc = "loop"
    /\ bi < Len(texts)
    /\ ppc' = "raised"
    /\ UNCHANGED <<mcfg, texts, bi, results, batches>>
    /\ PredictFrame

\* range(0, len(items), batch_size) is exhausted: return results
PredictReturn ==
    /\ ppc = "loop"
    /\ bi >= Len(texts)
    /\ ppc' = "returned"
    /\ UNCHANGED <<mcfg, texts, bi, results, batches>>
    /\ PredictFrame

PredictNext ==
    \/ PredictInvalid
    \/ PredictStart
    \/ PredictBatchStep
    \/ PredictBatchRaises
    \/ PredictReturn

\* ------------------------------------------------------------------------
\* Properties of predict
\* ------------------------------------------------------------------------

\* The texts, and the rows of probs, of the batches so far, in order
RECURSIVE BatchTexts(_)
BatchTexts(bs) == IF bs = <<>> THEN <<>> ELSE Head(bs).texts \o BatchTexts(Tail(bs))

RECURSIVE BatchProbs(_)
BatchProbs(bs) == IF bs = <<>> THEN <<>> ELSE Head(bs).probs \o BatchProbs(Tail(bs))

\* C13: predict returns one result per text, in input order, for every
\* batch_size >= 1: the batches are non-empty, at most batch_size long and
\* make up the input in order, and the result at position i is the one of
\* text i; at the position of every blank or empty text it is label neu,
\* score 0, probs (0, 1, 0), whatever the model gave for that row and
\* whatever else is in the batch.
C13_PredictAligned ==
    /\ ppc \in {"loop", "returned"} =>
          /\ mcfg.batch_size >= 1
          /\ Len(results) = (IF bi <= Len(texts) THEN bi ELSE Len(texts))
          /\ BatchTexts(batches) = SubSeq(texts, 1, Len(results))
          /\ \A k \in DOMAIN batches :
                 /\ Len(batches[k].texts) >= 1
                 /\ Len(batches[k].texts) <= mcfg.batch_size
          /\ \A i \in DOMAIN results :
                 IF Strip(texts[i]) = <<>>
                 THEN results[i] = [label |-> "neu", score |-> 0,
                                    probs |-> [neg |-> 0, neu |-> 10, pos |-> 0]]
                 ELSE results[i].probs = BatchProbs(batches)[i]
    /\ ppc = "returned" => Len(results) = Len(texts)

\* Three texts in two batches, a blank one between two texts with words,
\* the model scoring the blank row as negative
C13_Witness ==
    /\ ppc = "returned"
    /\ mcfg.batch_size = 2
    /\ Len(batches) = 2
    /\ texts = <<<<" ", "g">>, <<" ">>, <<" ", "g">>>>
    /\ batches[1].probs[2] = [neg |-> 8, neu |-> 1, pos |-> 1]
    /\ results[2].label = "neu"
    /\ results[1].label = "pos"

\* ------------------------------------------------------------------------
\* InvenKafkaProducer.send_many (src/pipelines/kafka_producer.py)
\* An item is its doc_id entry: None for an item without the key, else the
\* string under it, a sequence of characters.
\* ------------------------------------------------------------------------

\* Items without doc_id, with an empty one, a blank one, and two with ids
ItemPool ==
    {[doc_id |-> None],
     [doc_id |-> Some(<<>>)],
     [doc_id |-> Some(<<" ">>)],
     [doc_id |-> Some(<<" ", "1">>)],
     [doc_id |-> Some(<<"2">>)]}

\* str(item.get("doc_id", "")) without the strip()
DocIdUnstripped(item) == IF item.doc_id = None THEN <<>> ELSE item.doc_id[1]

\* doc_id = str(item.get("doc_id", "")).strip()
DocId(item) == IF item.doc_id = None THEN <<>> ELSE Strip(item.doc_id[1])

\* How a send can end: future.get returns the metadata of the delivered
\* record, future.get raises the delivery error of the broker or, after
\* 30 s without acknowledgement, a timeout (both are KafkaError), or
\* self._producer.send itself raises
SendOutcomes == {"acked", "KafkaError", "KafkaTimeoutError", "send raised"}

SendIdle ==
    /\ kpc = "off"
    /\ payloads = <<>>
    /\ ki = 1
    /\ count = 0
    /\ sends = <<>>
    /\ flushed = FALSE
    /\ kexc = "none"

\* At the entry of send_many(items): count = 0
SendInit ==
    /\ kpc = "loop"
    /\ payloads \in SeqsUpTo(ItemPool, MaxItems)
    /\ ki = 1
    /\ count = 0
    /\ sends = <<>>
    /\ flushed = FALSE
    /\ kexc = "none"

\* if not doc_id: raise ValueError
SendMissingDocId ==
    /\ kpc = "loop"
    /\ ki <= Len(payloads)
    /\ DocId(payloads[ki]) = <<>>
    /\ kpc' = "raised"
    /\ kexc' = "ValueError: Missing doc_id"
    /\ UNCHANGED <<payloads, ki, count, sends, flushed>>
    /\ SendFrame

\* self._producer.send(...) and future.get(timeout=30) return: count += 1
SendAcked ==
    /\ kpc = "loop"
    /\ ki <= Len(payloads)
    /\ DocId(payloads[ki]) # <<>>
    /\ sends' = Append(sends, [index |-> ki, key |-> DocId(payloads[ki]), outcome |-> "acked"])
    /\ count' = count + 1
    /\ ki' = ki + 1
    /\ UNCHANGED <<payloads, kpc, flushed, kexc>>
    /\ SendFrame

\* self._producer.send(...) raises, or future.get(timeout=30) raises a
\* KafkaError that is logged and re-raised
SendFails ==
    /\ kpc = "loop"
    /\ ki <= Len(payloads)
    /\ DocId(payloads[ki]) # <<>>
    /\ \E o \in SendOutcomes \ {"acked"} :
           /\ sends' = Append(sends, [index |-> ki, key |-> DocId(payloads[ki]), outcome |-> o])
           /\ kexc' = o
    /\ kpc' = "raised"
    /\ UNCHANGED <<payloads, ki, count, flushed>>
    /\ SendFrame

\* The loop is over: self._producer.flush(timeout=30); return count
SendFlushReturn ==
    /\ kpc = "loop"
    /\ ki > Len(payloads)
    /\ flushed' = TRUE
    /\ kpc' = "returned"
    /\ UNCHANGED <<payloads, ki, count, sends, kexc>>
    /\ SendFrame

\* self._producer.flush(timeout=30) raises its timeout
SendFlushRaises ==
    /\ kpc = "loop"
    /\ ki > Len(payloads)
    /\ kpc' = "raised"
    /\ kexc' = "KafkaTimeoutError: flush"
    /\ UNCHANGED <<payloads, ki, count, sends, flushed>>
    /\ SendFrame

SendNext ==
    \/ SendMissingDocId
    \/ SendAcked
    \/ SendFails
    \/ SendFlushReturn
    \/ SendFlushRaises

\* ------------------------------------------------------------------------
\* Properties of send_many
\* ------------------------------------------------------------------------

\* The item has no doc_id, or one that is empty or blank
LacksDocId(item) ==
    \/ item.doc_id = None
    \/ \A i \in DOMAIN item.doc_id[1] : item.doc_id[1][i] = " "

\* The items before the first one that lacks a doc_id
Sendable(n) == \A j \in 1..n : ~LacksDocId(payloads[j])

\* C14: send_many returns a count only after every item was sent and its
\* delivery acknowledged, and the count is the number of items; it raises
\* at the first item that lacks a non-empty doc_id or whose send errors
\* or stays unacknowledged, and no later item is sent: the items sent are
\* items 1, 2, ... in order, each with a non-empty key, each acknowledged
\* except the one send_many raised at.
C14_SendManyAllOrRaise ==
    /\ \A n \in DOMAIN sends :
           /\ sends[n].index = n
           /\ ~LacksDocId(payloads[n])
           /\ sends[n].key # <<>>
           /\ n < Len(sends) => sends[n].outcome = "acked"
    /\ kpc = "loop" =>
           /\ count = Len(sends)
           /\ ki = count + 1
           /\ \A n \in DOMAIN sends : sends[n].outcome = "acked"
    /\ kpc = "returned" =>
           /\ count = Len(payloads)
           /\ Len(sends) = Len(payloads)
           /\ \A n \in DOMAIN sends : sends[n].outcome = "acked"
           /\ flushed
    /\ kpc = "raised" =>
           /\ kexc # "none"
           /\ kexc = "ValueError: Missing doc_id" =>
                  /\ Len(sends) = ki - 1
                  /\ LacksDocId(payloads[ki])
                  /\ Sendable(ki - 1)
           /\ kexc \in SendOutcomes =>
                  /\ Len(sends) = ki
                  /\ sends[ki].outcome = kexc
                  /\ kexc # "acked"
    /\ (\E n \in DOMAIN payloads : LacksDocId(payloads[n])) => kpc # "returned"

\* Three items: the first is delivered, the second stays unacknowledged,
\* the third is never sent
C14_Witness ==
    /\ kpc = "raised"
    /\ Len(payloads) = 3
    /\ Len(sends) = 2
    /\ sends[1].outcome = "acked"
    /\ sends[2].outcome = "KafkaTimeoutError"
    /\ count = 1

\* ------------------------------------------------------------------------
\* HttpConfig(...) and HttpClient(config), as the entry points construct
\* them from the settings (src/pipelines/run_crawl_once.py).  Durations
\* are in seconds here.
\* ------------------------------------------------------------------------

\* The settings are unconstrained floats and integers of the environment
HttpConfigArgs ==
    [timeout_sec : {-1, 0, 15},
     delay_sec : {-1, 0, 1},
     max_retries : -1..MaxRetries,
     backoff_base_sec : {-1, 0, 1},
     backoff_max_sec : {-1, 0, 20}]

ConfigIdle ==
    /\ npc = "off"
    /\ nargs = [timeout_sec |-> 0, delay_sec |-> 0, max_retries |-> 0,
                backoff_base_sec |-> 0, backoff_max_sec |-> 0]
    /\ ncfg = None

\* s = load_settings()
ConfigInit ==
    /\ npc = "start"
    /\ nargs \in HttpConfigArgs
    /\ ncfg = None

\* HttpConfig(timeout_sec=..., ...): the generated __init__ of the frozen
\* dataclass stores the fields; there is no __post_init__
NewHttpConfig ==
    /\ npc = "start"
    /\ ncfg' = Some(nargs)
    /\ npc' = "config"
    /\ UNCHANGED nargs
    /\ ConfigFrame

\* HttpClient(config): self._cfg = config
NewHttpClient ==
    /\ npc = "config"
    /\ npc' = "client"
    /\ UNCHANGED <<nargs, ncfg>>
    /\ ConfigFrame

ConfigNext == NewHttpConfig \/ NewHttpClient

\* C16: the configuration is validated at construction: no HttpConfig, and
\* so no HttpClient, exists with a negative timeout, delay, backoff base
\* or backoff cap, or with max_retries < 0.
C16_ConfigValidated ==
    ncfg # None =>
        /\ ncfg[1].timeout_sec >= 0
        /\ ncfg[1].delay_sec >= 0
        /\ ncfg[1].backoff_base_sec >= 0
        /\ ncfg[1].backoff_max_sec >= 0
        /\ ncfg[1].max_retries >= 0

\* ------------------------------------------------------------------------
\* build_text (src/pipelines/sentiment_pipeline.py)
\* ------------------------------------------------------------------------

\* (x or ""): None and the empty string give the empty string
OrEmpty(x) == IF x = None THEN <<>> ELSE x[1]

\* build_text without the test `if not content`
BuildTextAlwaysJoins(post, used) ==
    LET title == Strip(OrEmpty(post.title))
        body == Strip(OrEmpty(post.content))
    IN  IF used = "title" THEN title
        ELSE IF title = <<>> THEN body
        ELSE title \o <<"\n", "\n">> \o body

\* build_text(post, text_used); body is the local content
BuildText(post, used) ==
    LET title == Strip(OrEmpty(post.title))
        body == Strip(OrEmpty(post.content))
    IN  IF used = "title" THEN title
        ELSE IF body = <<>> THEN title
        ELSE IF title = <<>> THEN body
        ELSE title \o <<"\n", "\n">> \o body

\* Titles and contents: None or a string of blanks and letters
TitleFields == {None} \cup {Some(t) : t \in SeqsUpTo({" ", "t"}, MaxFieldLen)}
ContentFields == {None} \cup {Some(c) : c \in SeqsUpTo({" ", "c"}, MaxFieldLen)}

\* SENTIMENT_TEXT_USED is any string of the environment
TextUsedValues == {"title", "title+content", "content"}

TextIdle ==
    /\ bpc = "off"
    /\ bpost = [title |-> None, content |-> None]
    /\ text_used = "title"
    /\ btext = <<>>

\* At the entry of build_text(post, text_used)
TextInit ==
    /\ bpc = "start"
    /\ bpost \in [title : TitleFields, content : ContentFields]
    /\ text_used \in TextUsedValues
    /\ btext = <<>>

BuildTextCall ==
    /\ bpc = "start"
    /\ btext' = BuildText(bpost, text_used)
    /\ bpc' = "done"
    /\ UNCHANGED <<bpost, text_used>>
    /\ TextFrame

TextNext == BuildTextCall

\* ------------------------------------------------------------------------
\* Properties of build_text
\* ------------------------------------------------------------------------

\* A field that is None or holds nothing but blanks
BlankField(x) == x = None \/ \A i \in DOMAIN x[1] : x[1][i] = " "

\* A field without its leading and trailing blanks
Trimmed(x) ==
    IF BlankField(x) THEN <<>>
    ELSE LET t == x[1]
             first == CHOOSE i \in DOMAIN t : t[i] # " " /\ \A j \in 1..(i - 1) : t[j] = " "
             last == CHOOSE i \in DOMAIN t : t[i] # " " /\ \A j \in (i + 1)..Len(t) : t[j] = " "
         IN  SubSeq(t, first, last)

\* C17: for "title" the text is the trimmed title whatever the content;
\* for "title+content" it is the trimmed title, a blank line and the
\* trimmed content when neither is blank, the trimmed title alone when the
\* content is blank, the trimmed content alone when the title is blank;
\* the text is blank only if every selected field is blank.
C17_BuildText ==
    bpc = "done" =>
        /\ text_used = "title" =>
              /\ btext = Trimmed(bpost.title)
              /\ btext = <<>> => BlankField(bpost.title)
        /\ text_used = "title+content" =>
              /\ (~BlankField(bpost.title) /\ ~BlankField(bpost.content)) =>
                    btext = Trimmed(bpost.title) \o <<"\n", "\n">> \o Trimmed(bpost.content)
              /\ BlankField(bpost.content) => btext = Trimmed(bpost.title)
              /\ BlankField(bpost.title) => btext = Trimmed(bpost.content)
              /\ btext = <<>> => (BlankField(bpost.title) /\ BlankField(bpost.content))

\* A blank content under "title+content": the title alone, trimmed
C17_Witness ==
    /\ bpc = "done"
    /\ text_used = "title+content"
    /\ bpost = [title |-> Some(<<" ", "t">>), content |-> Some(<<" ">>)]
    /\ btext = <<"t">>

\* ------------------------------------------------------------------------
\* InvenCrawler._build_list_url on any board base url
\* ------------------------------------------------------------------------

\* key=value parameters of a base url: a page parameter, a key with two
\* values, and a parameter with a blank value
QueryPairs == {<<"p", "1">>, <<"sort", "a">>, <<"sort", "b">>, <<"q", "">>}

\* INVEN_BOARD_BASE_URL is any url of the environment
BoardBaseUrls ==
    [scheme : {"https"},
     netloc : {"m.inven.co.kr"},
     path : {<<"board", "lostark", "5558">>},
     query : SeqsUpTo(QueryPairs, MaxQuery),
     fragment : {"", "top"}]

ListUrlIdle ==
    /\ upc = "off"
    /\ board_base_url = [scheme |-> "", netloc |-> "", path |-> <<>>,
                         query |-> <<>>, fragment |-> ""]
    /\ upage = 0
    /\ list_url = [scheme |-> "", netloc |-> "", path |-> <<>>,
                   query |-> <<>>, fragment |-> ""]

\* At the entry of _build_list_url(page)
ListUrlInit ==
    /\ upc = "start"
    /\ board_base_url \in BoardBaseUrls
    /\ upage \in 0..MaxPages
    /\ list_url = [scheme |-> "", netloc |-> "", path |-> <<>>,
                   query |-> <<>>, fragment |-> ""]

BuildListUrlCall ==
    /\ upc = "start"
    /\ list_url' = BuildListUrlFrom(board_base_url, upage)
    /\ upc' = "done"
    /\ UNCHANGED <<board_base_url, upage>>
    /\ ListUrlFrame

ListUrlNext == BuildListUrlCall

\* ------------------------------------------------------------------------
\* Properties of _build_list_url
\* ------------------------------------------------------------------------

\* The parameters of a query other than the page parameter, in order
RECURSIVE OtherParams(_)
OtherParams(query) ==
    IF query = <<>> THEN <<>>
    ELSE IF Head(query)[1] = "p" THEN OtherParams(Tail(query))
    ELSE <<Head(query)>> \o OtherParams(Tail(query))

PageParams(query) == {i \in DOMAIN query : query[i][1] = "p"}

\* C19: for page <= 1 the result is the base url; for page >= 2 its query
\* has exactly one page parameter p, equal to the page number, and every
\* other parameter of the base url, repeated keys and blank values
\* included; scheme, host, path and fragment are those of the base url.
C19_BuildListUrl ==
    upc = "done" =>
        /\ upage <= 1 => list_url = board_base_url
        /\ upage >= 2 =>
              /\ Cardinality(PageParams(list_url.query)) = 1
              /\ \A i \in PageParams(list_url.query) :
                     list_url.query[i][2] = StrOfInt(upage)
              /\ OtherParams(list_url.query) = OtherParams(board_base_url.query)
              /\ list_url.scheme = board_base_url.scheme
              /\ list_url.netloc = board_base_url.netloc
              /\ list_url.path = board_base_url.path
              /\ list_url.fragment = board_base_url.fragment

\* The keys of a query are distinct and no value is blank
PlainQuery(query) ==
    /\ \A i, j \in DOMAIN query : query[i][1] = query[j][1] => i = j
    /\ \A i \in DOMAIN query : query[i][2] # ""

\* C19 for a base url whose keys are distinct and whose values are not
\* blank
C19_BuildListUrlPlainQuery ==
    (upc = "done" /\ PlainQuery(board_base_url.query)) =>
        /\ upage <= 1 => list_url = board_base_url
        /\ upage >= 2 =>
              /\ Cardinality(PageParams(list_url.query)) = 1
              /\ \A i \in PageParams(list_url.query) :
                     list_url.query[i][2] = StrOfInt(upage)
              /\ OtherParams(list_url.query) = OtherParams(board_base_url.query)
              /\ list_url.scheme = board_base_url.scheme
              /\ list_url.netloc = board_base_url.netloc
              /\ list_url.path = board_base_url.path
              /\ list_url.fragment = board_base_url.fragment

\* ------------------------------------------------------------------------
\* Specifications
\* ------------------------------------------------------------------------

\* get_text runs on a client of any configuration
InitHttp ==
    /\ HttpInit
    /\ CrawlIdle /\ ListIdle /\ RefsIdle /\ DetailIdle /\ SplitIdle
    /\ PredictIdle /\ SendIdle /\ ConfigIdle /\ TextIdle /\ ListUrlIdle

SpecHttp == InitHttp /\ [][HttpNext]_vars

\* fetch_posts runs on any list of references
InitCrawl ==
    /\ CrawlInit
    /\ HttpIdle /\ ListIdle /\ RefsIdle /\ DetailIdle /\ SplitIdle
    /\ PredictIdle /\ SendIdle /\ ConfigIdle /\ TextIdle /\ ListUrlIdle

SpecCrawl == InitCrawl /\ [][CrawlNext]_vars

\* _parse_list_html runs on any list page
InitList ==
    /\ ListInit
    /\ HttpIdle /\ CrawlIdle /\ RefsIdle /\ DetailIdle /\ SplitIdle
    /\ PredictIdle /\ SendIdle /\ ConfigIdle /\ TextIdle /\ ListUrlIdle

SpecList == InitList /\ [][ListNext]_vars

\* fetch_post_refs runs with any max_pages and max_posts
InitRefs ==
    /\ RefsInit
    /\ HttpIdle /\ CrawlIdle /\ ListIdle /\ DetailIdle /\ SplitIdle
    /\ PredictIdle /\ SendIdle /\ ConfigIdle /\ TextIdle /\ ListUrlIdle

SpecRefs == InitRefs /\ [][RefsNext]_vars

\* the detail extractor runs on any page and title
InitDetail ==
    /\ DetailInit
    /\ HttpIdle /\ CrawlIdle /\ ListIdle /\ RefsIdle /\ SplitIdle
    /\ PredictIdle /\ SendIdle /\ ConfigIdle /\ TextIdle /\ ListUrlIdle

SpecDetail == InitDetail /\ [][DetailNext]_vars

\* _split_category runs on any anchor text
InitSplit ==
    /\ SplitInit
    /\ HttpIdle /\ CrawlIdle /\ ListIdle /\ RefsIdle /\ DetailIdle
    /\ PredictIdle /\ SendIdle /\ ConfigIdle /\ TextIdle /\ ListUrlIdle

SpecSplit == InitSplit /\ [][SplitNext]_vars

\* predict runs on any texts under any model configuration
InitPredict ==
    /\ PredictInit
    /\ HttpIdle /\ CrawlIdle /\ ListIdle /\ RefsIdle /\ DetailIdle
    /\ SplitIdle /\ SendIdle /\ ConfigIdle /\ TextIdle /\ ListUrlIdle

SpecPredict == InitPredict /\ [][PredictNext]_vars

\* send_many runs on any items against any broker behaviour
InitSend ==
    /\ SendInit
    /\ HttpIdle /\ CrawlIdle /\ ListIdle /\ RefsIdle /\ DetailIdle
    /\ SplitIdle /\ PredictIdle /\ ConfigIdle /\ TextIdle /\ ListUrlIdle

SpecSend == InitSend /\ [][SendNext]_vars

\* an HttpClient is constructed from any settings
InitConfig ==
    /\ ConfigInit
    /\ HttpIdle /\ CrawlIdle /\ ListIdle /\ RefsIdle /\ DetailIdle
    /\ SplitIdle /\ PredictIdle /\ SendIdle /\ TextIdle /\ ListUrlIdle

SpecConfig == InitConfig /\ [][ConfigNext]_vars

\* build_text runs on any post and selection
InitText ==
    /\ TextInit
    /\ HttpIdle /\ CrawlIdle /\ ListIdle /\ RefsIdle /\ DetailIdle
    /\ SplitIdle /\ PredictIdle /\ SendIdle /\ ConfigIdle /\ ListUrlIdle

SpecText == InitText /\ [][TextNext]_vars

\* _build_list_url runs on any base url and page
InitListUrl ==
    /\ ListUrlInit
    /\ HttpIdle /\ CrawlIdle /\ ListIdle /\ RefsIdle /\ DetailIdle
    /\ SplitIdle /\ PredictIdle /\ SendIdle /\ ConfigIdle /\ TextIdle

SpecListUrl == InitListUrl /\ [][ListUrlNext]_vars

Init ==
    \/ InitHttp \/ InitCrawl \/ InitList \/ InitRefs \/ InitDetail
    \/ InitSplit \/ InitPredict \/ InitSend \/ InitConfig \/ InitText
    \/ InitListUrl

Next ==
    \/ HttpNext \/ CrawlNext \/ ListNext \/ RefsNext \/ DetailNext
    \/ SplitNext \/ PredictNext \/ SendNext \/ ConfigNext \/ TextNext
    \/ ListUrlNext

Spec == Init /\ [][Next]_vars

=============================================================================
